---- MODULE Spec2Model ----
(***************************************************************************)
(* Model of BESS_Model/assests/battery.py: the Battery record, its         *)
(* constructor and get_parameters().                                       *)
(*                                                                         *)
(* Python floats are modelled as fixed-point numbers counted in            *)
(* hundredths (Float(97) is 0.97, Float(10000) is 100.0).  The argument    *)
(* sets below are chosen so that every product the constructor forms is a  *)
(* whole number of hundredths, so FloatMul is exact on them.               *)
(*                                                                         *)
(* Objects live in a heap (a sequence of attribute/key mappings addressed  *)
(* by index) so that the identity of a returned mapping, and whether it    *)
(* shares storage with the record, is part of the state.                   *)
(***************************************************************************)
EXTENDS Integers, Sequences, FiniteSets, TLC

\* ------------------------------------------------------------------ bounds
\* at most this many get_parameters() calls in one run
MaxCalls == 2
\* at most this many attribute assignments in one run
MaxMutations == 1

\* ------------------------------------------------------------------ values
\* hundredths per unit of the fixed-point representation of a float
Unit == 10 * 10

Float(n) == [type |-> "float", val |-> n]
\* a non-numeric argument (a str)
Str == [type |-> "str", val |-> 0]
\* a keyword argument the caller did not pass
Omitted == [type |-> "omitted", val |-> 0]
\* the outcome of an expression that raised TypeError
TypeError == [type |-> "TypeError", val |-> 0]

IsNumeric(v) == v.type = "float"

\* The null reference: no Battery object exists.
None == 0

\* The eight attribute names, also the keys of the returned dict.
Keys ==
    { "current_charge", "capacity", "charging_power_limit",
      "discharging_power_limit", "charging_efficiency",
      "discharging_efficiency", "min_depth_of_discharge",
      "max_depth_of_discharge" }

\* Defaults with the efficiencies at 1.0 (a lossless battery).
DefaultLossless ==
    [ current_charge          |-> Float(0),
      capacity                |-> Float(0),
      charging_power_limit    |-> Float(100),
      discharging_power_limit |-> Float(100),
      charging_efficiency     |-> Float(100),
      discharging_efficiency  |-> Float(100),
      min_depth_of_discharge  |-> Float(10),
      max_depth_of_discharge  |-> Float(97) ]

\* Default values of the constructor's keyword parameters.
Default ==
    [ current_charge          |-> Float(0),
      capacity                |-> Float(0),
      charging_power_limit    |-> Float(100),
      discharging_power_limit |-> Float(100),
      charging_efficiency     |-> Float(95),
      discharging_efficiency  |-> Float(95),
      min_depth_of_discharge  |-> Float(10),
      max_depth_of_discharge  |-> Float(97) ]

\* Python's  a * b  for a float a: the product when b is a float too,
\* TypeError when b is a str (a str cannot be multiplied by a float).
FloatMul(a, b) ==
    IF IsNumeric(a) /\ IsNumeric(b)
        THEN Float((a.val * b.val) \div Unit)
        ELSE TypeError

\* Binding of the call's keyword arguments to the parameters: an omitted
\* argument takes the parameter's default.
Bind(kwargs) ==
    [p \in Keys |-> IF kwargs[p] = Omitted THEN Default[p] ELSE kwargs[p]]

\* A constructor that stores the depth-of-discharge fractions as passed.
InitBodyNoConversion(a) ==
    [ current_charge          |-> a.current_charge,
      capacity                |-> a.capacity,
      charging_power_limit    |-> a.charging_power_limit,
      discharging_power_limit |-> a.discharging_power_limit,
      charging_efficiency     |-> a.charging_efficiency,
      discharging_efficiency  |-> a.discharging_efficiency,
      min_depth_of_discharge  |-> a.min_depth_of_discharge,
      max_depth_of_discharge  |-> a.max_depth_of_discharge ]

\* A constructor that fills in the efficiencies from the literal 0.95
\* instead of from its parameters.
InitBodyLiteralEfficiency(a) ==
    [ current_charge          |-> a.current_charge,
      capacity                |-> a.capacity,
      charging_power_limit    |-> a.charging_power_limit,
      discharging_power_limit |-> a.discharging_power_limit,
      charging_efficiency     |-> Float(95),
      discharging_efficiency  |-> Float(95),
      min_depth_of_discharge  |-> FloatMul(a.min_depth_of_discharge, a.capacity),
      max_depth_of_discharge  |-> FloatMul(a.max_depth_of_discharge, a.capacity) ]

\* A constructor that rejects a capacity below zero.
InitBodyValidating(a) ==
    [ current_charge          |-> a.current_charge,
      capacity                |-> a.capacity,
      charging_power_limit    |-> a.charging_power_limit,
      discharging_power_limit |-> a.discharging_power_limit,
      charging_efficiency     |-> a.charging_efficiency,
      discharging_efficiency  |-> a.discharging_efficiency,
      min_depth_of_discharge  |->
          IF IsNumeric(a.capacity) /\ a.capacity.val < 0
              THEN TypeError
              ELSE FloatMul(a.min_depth_of_discharge, a.capacity),
      max_depth_of_discharge  |-> FloatMul(a.max_depth_of_discharge, a.capacity) ]

\* The body of Battery.__init__: the attribute values its eight assignments
\* store, given the bound parameters.
InitBody(a) ==
    [ current_charge          |-> a.current_charge,
      capacity                |-> a.capacity,
      charging_power_limit    |-> a.charging_power_limit,
      discharging_power_limit |-> a.discharging_power_limit,
      charging_efficiency     |-> a.charging_efficiency,
      discharging_efficiency  |-> a.discharging_efficiency,
      min_depth_of_discharge  |-> FloatMul(a.min_depth_of_discharge, a.capacity),
      max_depth_of_discharge  |-> FloatMul(a.max_depth_of_discharge, a.capacity) ]

\* Battery(**kwargs): the attribute mapping of the new object.
BatteryInit(kwargs) == InitBody(Bind(kwargs))

\* __init__ raised: one of its multiplications did.
Raised(attrs) == \E k \in Keys : attrs[k] = TypeError

\* get_parameters() that hands out the record's own attribute mapping.
GetParametersAliasing(h, s) == [heap |-> h, ret |-> s]

\* get_parameters() whose dict literal lacks the 'capacity' entry.
GetParametersMissingKey(h, s) ==
    [ heap |-> Append(h, [k \in Keys \ {"capacity"} |-> h[s][k]]),
      ret  |-> Len(h) + 1 ]

\* get_parameters() that builds the dict on the first call only and hands
\* out that same dict on every later call.
GetParametersMemoized(h, s) ==
    IF Len(h) > s
        THEN [heap |-> h, ret |-> s + 1]
        ELSE [ heap |-> Append(h, [k \in Keys |-> h[s][k]]),
               ret  |-> Len(h) + 1 ]

\* get_parameters() that resets current_charge after reading it.
GetParametersResetting(h, s) ==
    [ heap |-> Append([h EXCEPT ![s].current_charge = Float(0)],
                      [k \in Keys |-> h[s][k]]),
      ret  |-> Len(h) + 1 ]

\* Battery.get_parameters on the object at address s of heap h: a new dict
\* is allocated holding, under each key, the attribute's present value;
\* the result is the heap after the call and the address returned.
GetParametersImpl(h, s) ==
    [ heap |-> Append(h, [k \in Keys |-> h[s][k]]),
      ret  |-> Len(h) + 1 ]

\* An attribute assignment that keeps the depth-of-discharge bounds in step
\* with the capacity (a property setter on capacity).
SetAttrRescaling(h, s, k, v) ==
    IF k = "capacity"
        THEN [h EXCEPT ![s] =
                 [ @ EXCEPT !.capacity = v,
                            !.min_depth_of_discharge = FloatMul(Float(10), v),
                            !.max_depth_of_discharge = FloatMul(Float(97), v) ]]
        ELSE [h EXCEPT ![s][k] = v]

\* battery.<k> = v on the object at address s: the attributes are plain
\* instance attributes, so only attribute k changes.
SetAttrImpl(h, s, k, v) == [h EXCEPT ![s][k] = v]

\* ------------------------------------------------------------- input sets
\* Values the caller passes for each keyword argument (besides omitting it).
ArgValues ==
    [ current_charge          |-> {Float(5000)},
      capacity                |-> {Float(10000), Float(-5000), Str},
      charging_power_limit    |-> {Float(200)},
      discharging_power_limit |-> {Float(300)},
      charging_efficiency     |-> {Float(90)},
      discharging_efficiency  |-> {Float(80)},
      min_depth_of_discharge  |-> {Float(20)},
      max_depth_of_discharge  |-> {Float(100)} ]

\* The calls the caller can make: each keyword argument omitted or passed.
Kwargs ==
    [ current_charge          : {Omitted} \cup ArgValues.current_charge,
      capacity                : {Omitted} \cup ArgValues.capacity,
      charging_power_limit    : {Omitted} \cup ArgValues.charging_power_limit,
      discharging_power_limit : {Omitted} \cup ArgValues.discharging_power_limit,
      charging_efficiency     : {Omitted} \cup ArgValues.charging_efficiency,
      discharging_efficiency  : {Omitted} \cup ArgValues.discharging_efficiency,
      min_depth_of_discharge  : {Omitted} \cup ArgValues.min_depth_of_discharge,
      max_depth_of_discharge  : {Omitted} \cup ArgValues.max_depth_of_discharge ]

\* Values the caller assigns to an attribute after construction.
AssignedValues == {Float(4200)}

\* ------------------------------------------------------------------ state
VARIABLES
    heap,    \* sequence of mappings: the objects allocated so far
    self,    \* address of the Battery's attribute mapping, or None
    exc,     \* the exception the last operation propagated, or "none"
    trace    \* the caller's operations so far, in order

vars == <<heap, self, exc, trace>>

Init ==
    /\ heap = <<>>
    /\ self = None
    /\ exc = "none"
    /\ trace = <<>>

\* b = Battery(**kw)
Construct ==
    /\ trace = <<>>
    /\ \E kw \in Kwargs :
        LET attrs == BatteryInit(kw) IN
        /\ trace' = <<[op |-> "init", kwargs |-> kw]>>
        /\ IF Raised(attrs)
              THEN /\ exc' = "TypeError"
                   /\ UNCHANGED <<heap, self>>
              ELSE /\ heap' = Append(heap, attrs)
                   /\ self' = Len(heap) + 1
                   /\ exc' = "none"

NumCalls == Cardinality({i \in 1..Len(trace) : trace[i].op = "get"})
NumMutations == Cardinality({i \in 1..Len(trace) : trace[i].op = "set"})

\* d = b.get_parameters()
GetParameters ==
    /\ self # None
    /\ NumCalls < MaxCalls
    /\ LET r == GetParametersImpl(heap, self) IN
        /\ heap' = r.heap
        /\ trace' = Append(trace, [op |-> "get", ret |-> r.ret])
    /\ UNCHANGED <<self, exc>>

\* b.<k> = v
SetAttr ==
    /\ self # None
    /\ NumMutations < MaxMutations
    /\ \E k \in Keys, v \in AssignedValues :
        /\ heap' = SetAttrImpl(heap, self, k, v)
        /\ trace' = Append(trace, [op |-> "set", key |-> k, value |-> v])
    /\ UNCHANGED <<self, exc>>

Next == Construct \/ GetParameters \/ SetAttr

Spec == Init /\ [][Next]_vars

\* ------------------------------------------------------- reading the trace
\* positions of the get_parameters() calls
GetIdx == {i \in 1..Len(trace) : trace[i].op = "get"}

\* positions of the assignments to attribute k
SetIdx(k) == {i \in 1..Len(trace) : trace[i].op = "set" /\ trace[i].key = k}

\* positions of the assignments to any attribute
AnySetIdx == {i \in 1..Len(trace) : trace[i].op = "set"}

\* the mapping returned by the call at position i
Returned(i) == heap[trace[i].ret]

\* the keyword arguments of the constructor call, and the parameters they bind
CallKwargs == trace[1].kwargs
Params == Bind(CallKwargs)

\* the step is a get_parameters() call
IsCallStep ==
    /\ Len(trace') = Len(trace) + 1
    /\ trace'[Len(trace')].op = "get"

\* x is the exact product of the floats f and c
IsProduct(x, f, c) == IsNumeric(x) /\ x.val * Unit = f.val * c.val

\* the value attribute k holds just before position i of the trace: the last
\* value assigned to it, or else the value the constructor stored (built)
AttrAt(built, i, k) ==
    LET S == {j \in SetIdx(k) : j < i} IN
    IF S = {} THEN built[k]
              ELSE trace[CHOOSE j \in S : \A m \in S : m <= j].value

DodKeys == {"min_depth_of_discharge", "max_depth_of_discharge"}

\* ------------------------------------------------------------------ claims

\* C1: for a numeric capacity c and fractions fmin, fmax, the constructed
\* record stores min_depth_of_discharge = fmin * c and max_depth_of_discharge
\* = fmax * c, and get_parameters() called before any mutation returns these
\* products; capacity=100, fmin=0.1, fmax=0.97 gives 10 and 97.
C1_ConversionAtConstruction ==
    (self # None) =>
        LET p == Params IN
        IsNumeric(p.capacity) =>
        /\ Len(trace) = 1 =>
            \A k \in DodKeys : IsProduct(heap[self][k], p[k], p.capacity)
        /\ \A i \in GetIdx :
            (\A j \in AnySetIdx : j > i) =>
                /\ \A k \in DodKeys :
                     IsProduct(Returned(i)[k], p[k], p.capacity)
                /\ ( /\ p.capacity = Float(10000)
                     /\ p.min_depth_of_discharge = Float(10)
                     /\ p.max_depth_of_discharge = Float(97) ) =>
                        /\ Returned(i).min_depth_of_discharge = Float(1000)
                        /\ Returned(i).max_depth_of_discharge = Float(9700)

\* C1 witness: Battery(capacity=100.0) with the default fractions, queried
\* before any mutation, returned 10.0 and 97.0.
C1_Witness ==
    /\ self # None
    /\ CallKwargs.capacity = Float(10000)
    /\ CallKwargs.min_depth_of_discharge = Omitted
    /\ CallKwargs.max_depth_of_discharge = Omitted
    /\ \E i \in GetIdx :
        /\ \A j \in AnySetIdx : j > i
        /\ Returned(i).min_depth_of_discharge = Float(1000)
        /\ Returned(i).max_depth_of_discharge = Float(9700)

\* the values of a record constructed with no arguments
DefaultRecord ==
    [ current_charge          |-> Float(0),
      capacity                |-> Float(0),
      charging_power_limit    |-> Float(100),
      discharging_power_limit |-> Float(100),
      charging_efficiency     |-> Float(95),
      discharging_efficiency  |-> Float(95),
      min_depth_of_discharge  |-> Float(0),
      max_depth_of_discharge  |-> Float(0) ]

NoArguments == \A k \in Keys : CallKwargs[k] = Omitted

\* C2: a record constructed with no arguments holds current_charge=0.0,
\* capacity=0.0, both power limits 1.0, both efficiencies 0.95 and both
\* depth-of-discharge bounds 0.0, and get_parameters() returns exactly these.
C2_DefaultConstruction ==
    (trace # <<>> /\ NoArguments) =>
        /\ self # None
        /\ exc = "none"
        /\ Len(trace) = 1 => heap[self] = DefaultRecord
        /\ \A i \in GetIdx :
            (\A j \in AnySetIdx : j > i) => Returned(i) = DefaultRecord

\* C2 witness: Battery() was queried before any mutation.
C2_Witness ==
    /\ self # None
    /\ NoArguments
    /\ \E i \in GetIdx :
        /\ \A j \in AnySetIdx : j > i
        /\ Returned(i).charging_efficiency = Float(95)

\* C3: every mapping get_parameters() returned, after construction and after
\* any attribute mutations, has exactly the eight keys.
C3_ExactlyEightKeys ==
    \A i \in GetIdx :
        DOMAIN Returned(i) =
            { "current_charge", "capacity", "charging_power_limit",
              "discharging_power_limit", "charging_efficiency",
              "discharging_efficiency", "min_depth_of_discharge",
              "max_depth_of_discharge" }

\* C3 witness: a call made after an attribute mutation returned a mapping.
C3_Witness ==
    \E i \in GetIdx :
        /\ \E j \in AnySetIdx : j < i
        /\ Cardinality(DOMAIN Returned(i)) = 8

\* C4: a get_parameters() call returns, for each of the eight keys, the value
\* the attribute holds at the time of the call (the last value assigned to
\* it, or the constructed one), never a value cached from construction or
\* from an earlier call.
C4_FreshAtCallTime ==
    GetIdx # {} =>
        LET built == BatteryInit(CallKwargs) IN
        \A i \in GetIdx : \A k \in Keys : Returned(i)[k] = AttrAt(built, i, k)

\* C4 witness: get_parameters(), then current_charge assigned a new value,
\* then get_parameters() again, which returned the new value.
C4_Witness ==
    \E i \in GetIdx : \E j \in SetIdx("current_charge") : \E m \in GetIdx :
        /\ m < j /\ j < i
        /\ Returned(i).current_charge = trace[j].value
        /\ Returned(i).current_charge # BatteryInit(CallKwargs).current_charge

\* C5: two get_parameters() calls with no attribute mutation between them
\* return mappings equal in every key/value pair.
C5_Idempotent ==
    \A i \in GetIdx :
        (i + 1 \in GetIdx) =>
            /\ DOMAIN Returned(i) = DOMAIN Returned(i + 1)
            /\ \A k \in DOMAIN Returned(i) : Returned(i)[k] = Returned(i + 1)[k]

\* C5 witness: two consecutive calls on a record whose current_charge is
\* not zero.
C5_Witness ==
    \E i \in GetIdx :
        /\ i + 1 \in GetIdx
        /\ Returned(i + 1).current_charge # Float(0)

\* the constructor call has returned or raised and nothing was done since
JustConstructed == Len(trace) = 1

NumericArguments == \A k \in Keys : IsNumeric(Params[k])

\* C6 as stated: construction accepts any numeric value for every parameter
\* without raising, and a negative or a zero capacity collapses both stored
\* depth-of-discharge bounds to 0.
C6_AsStated ==
    (JustConstructed /\ NumericArguments) =>
        /\ exc = "none"
        /\ self # None
        /\ Params.capacity.val <= 0 =>
            \A k \in DodKeys : heap[self][k] = Float(0)

\* C6 amended: construction accepts any numeric value for every parameter
\* without raising; a zero capacity collapses both stored depth-of-discharge
\* bounds to 0, while a negative capacity c does not: it stores the products
\* fmin * c and fmax * c (capacity=-50.0 with the default fractions gives
\* -5.0 and -48.5).
C6_NoValidation ==
    (JustConstructed /\ NumericArguments) =>
        /\ exc = "none"
        /\ self # None
        /\ Params.capacity.val = 0 =>
            \A k \in DodKeys : heap[self][k] = Float(0)
        /\ Params.capacity.val < 0 =>
            \A k \in DodKeys :
                IsProduct(heap[self][k], Params[k], Params.capacity)
        /\ ( /\ Params.capacity = Float(-5000)
             /\ Params.min_depth_of_discharge = Float(10)
             /\ Params.max_depth_of_discharge = Float(97) ) =>
                /\ heap[self].min_depth_of_discharge = Float(-500)
                /\ heap[self].max_depth_of_discharge = Float(-4850)

\* C6 witness: Battery(capacity=-50.0) was constructed without an error and
\* holds min_depth_of_discharge = -5.0.
C6_Witness ==
    /\ JustConstructed
    /\ self # None
    /\ exc = "none"
    /\ CallKwargs.capacity = Float(-5000)
    /\ CallKwargs.min_depth_of_discharge = Omitted
    /\ heap[self].min_depth_of_discharge = Float(-500)

PlainKeys == Keys \ DodKeys

\* C7: for every combination of constructor arguments, the six fields other
\* than the depth-of-discharge bounds are stored exactly equal to the
\* supplied (or defaulted) argument.
C7_OthersStoredAsPassed ==
    (JustConstructed /\ self # None) =>
        \A k \in PlainKeys :
            heap[self][k] =
                IF CallKwargs[k] = Omitted THEN Default[k] ELSE CallKwargs[k]

\* C7 witness: a record constructed with every argument supplied holds the
\* six plain arguments unchanged and a converted depth-of-discharge bound.
C7_Witness ==
    /\ JustConstructed
    /\ self # None
    /\ \A k \in Keys : CallKwargs[k] # Omitted
    /\ \A k \in PlainKeys : heap[self][k] = CallKwargs[k]
    /\ heap[self].min_depth_of_discharge # CallKwargs.min_depth_of_discharge

\* C8: get_parameters() leaves all eight attributes of the record unchanged
\* and never raises.
C8_QueryHasNoSideEffect ==
    [][ IsCallStep =>
            /\ self' = self
            /\ heap'[self] = heap[self]
            /\ exc' = "none" ]_vars

\* C8 witness: get_parameters() was the last operation, on a record an
\* attribute of which had been mutated.
C8_Witness ==
    /\ trace # <<>>
    /\ Len(trace) \in GetIdx
    /\ \E j \in AnySetIdx : heap[self][trace[j].key] = trace[j].value

\* C9: a returned mapping is a snapshot independent of the record: no later
\* step changes a mapping already returned, and each call returns a new
\* mapping, shared neither with the record nor with an earlier call.
C9_SnapshotIndependent ==
    [][ /\ \A i \in GetIdx : heap'[trace[i].ret] = heap[trace[i].ret]
        /\ IsCallStep =>
            /\ trace'[Len(trace')].ret \notin 1..Len(heap)
            /\ trace'[Len(trace')].ret # self'
            /\ \A i \in GetIdx : trace'[Len(trace')].ret # trace[i].ret ]_vars

\* C9 witness: an attribute was mutated after a call, and the mapping that
\* call returned still holds the old value.
C9_Witness ==
    \E i \in GetIdx : \E j \in AnySetIdx :
        /\ i < j
        /\ heap[self][trace[j].key] = trace[j].value
        /\ Returned(i)[trace[j].key] # trace[j].value

\* C10: the conversion happens only at construction: mutating capacity
\* leaves min_depth_of_discharge = fmin * c and max_depth_of_discharge =
\* fmax * c for the capacity c the record was constructed with, in the
\* record and in what get_parameters() returns.
C10_ConversionOnlyAtConstruction ==
    (self # None) =>
        LET p == Params IN
        \A k \in DodKeys :
            /\ SetIdx(k) = {} =>
                IsProduct(heap[self][k], p[k], p.capacity)
            /\ \A i \in GetIdx :
                (\A j \in SetIdx(k) : j > i) =>
                    IsProduct(Returned(i)[k], p[k], p.capacity)

\* C10 witness: capacity was mutated to another value and get_parameters()
\* then returned depth-of-discharge values that are not the fractions times
\* the capacity of the same mapping.
C10_Witness ==
    /\ self # None
    /\ \E j \in SetIdx("capacity") : \E i \in GetIdx :
        /\ j < i
        /\ Returned(i).capacity = trace[j].value
        /\ Returned(i).capacity # Params.capacity
        /\ \A k \in DodKeys :
            /\ IsProduct(Returned(i)[k], Params[k], Params.capacity)
            /\ ~IsProduct(Returned(i)[k], Params[k], Returned(i).capacity)

====
